---- MODULE Spec2Model ----
(***************************************************************************)
(* A model of gen_glad_doxygen.py: the GL registry lookups (alias          *)
(* resolution, earliest introducing version), the reference page store     *)
(* (lazy, cached loads), the docblock synthesizer build_doc and the        *)
(* line-oriented rewriter process.                                         *)
(*                                                                         *)
(* Text is modelled as a sequence of tokens.  The characters the code      *)
(* searches for (" ", "/", "*", "#") are tokens of their own; every other  *)
(* token ("define", "glA", "x", "\\see", ...) stands for a run of          *)
(* characters holding none of them.  A line is a sequence of tokens, a     *)
(* file a sequence of lines.  Python indices are 0-based; the model's are  *)
(* 1-based.  None is the empty sequence <<>>, an optional value <<v>>.     *)
(***************************************************************************)
EXTENDS Integers, Sequences, FiniteSets, TLC

VARIABLES
    \* GLRegistry
    commands,             \* self.commands: name -> [ret, params, alias]
    alias_of,             \* self.alias_of: name -> alias target
    introduced_version,   \* self.introduced_version: name -> version text
    extensions_for_cmd,   \* self.extensions_for_cmd: name -> set of extensions
    \* GLRegistry._parse_features
    features,             \* the <feature> blocks of the registry, in document order
    fi,                   \* index of the next block to read
    \* GLRegistry.resolve_alias
    ra_name, ra_cur, ra_seen, ra_pc,
    \* RefPages
    docs,                 \* <folder>/<func>.xml: func -> document (absent: not in DOMAIN)
    cache,                \* self.cache: func -> parsed root
    lookups,              \* calls of _path per func that reached the file system
    parses,               \* calls of _parse_lenient per func
    \* build_doc
    calls, bd_name, bd_out,
    \* process
    src_lines,            \* the lines of in_path
    skip, i, out_lines, pc,
    out_file,             \* the text at out_path, as the lines it reads back as
    run,                  \* 1: the first run; 2: the run on the first run's output
    out1                  \* the text the first run wrote

vars == <<commands, alias_of, introduced_version, extensions_for_cmd, features, fi,
          ra_name, ra_cur, ra_seen, ra_pc, docs, cache, lookups, parses,
          calls, bd_name, bd_out, src_lines, skip, i, out_lines, pc, out_file, run, out1>>

regVars  == <<commands, alias_of, introduced_version, extensions_for_cmd>>
featVars == <<features, fi>>
raVars   == <<ra_name, ra_cur, ra_seen, ra_pc>>
refVars  == <<docs, cache, lookups, parses>>
bdVars   == <<calls, bd_name, bd_out>>
procVars == <<src_lines, skip, i, out_lines, pc, out_file, run, out1>>

None == <<>>

(***************************************************************************)
(* Bounds                                                                  *)
(***************************************************************************)
MaxLines == 3       \* lines of an input file
MaxFeatures == 3    \* <feature> blocks of a registry
MaxCalls == 2       \* build_doc calls of one run
NumNames == 3       \* command names of an alias map

(***************************************************************************)
(* Text helpers                                                            *)
(***************************************************************************)
Range(s) == {s[x] : x \in DOMAIN s}

\* pat in line
Contains(line, pat) ==
    \E p \in 1..(Len(line) - Len(pat) + 1) :
        \A q \in 1..Len(pat) : line[p + q - 1] = pat[q]

\* line.startswith(pat)
StartsWith(line, pat) ==
    /\ Len(line) >= Len(pat)
    /\ \A q \in 1..Len(pat) : line[q] = pat[q]

RECURSIVE SkipWs(_, _)
\* the first index >= p of a token that is not white space (Len+1 if none)
SkipWs(line, p) ==
    IF p <= Len(line) /\ line[p] = " " THEN SkipWs(line, p + 1) ELSE p

\* line.lstrip()
LStrip(line) == SubSeq(line, SkipWs(line, 1), Len(line))

\* line.strip() == ""
IsBlank(line) == SkipWs(line, 1) > Len(line)

RECURSIVE ws_split(_, _)
\* s.split(): the words of s, cur being the word under way
ws_split(s, cur) ==
    IF s = <<>> THEN (IF cur = <<>> THEN <<>> ELSE <<cur>>)
    ELSE IF Head(s) = " "
         THEN (IF cur = <<>> THEN <<>> ELSE <<cur>>) \o ws_split(Tail(s), <<>>)
         ELSE ws_split(Tail(s), Append(cur, Head(s)))

RECURSIVE Flatten(_)
\* "\n".join(seqs), read back as lines
Flatten(seqs) == IF seqs = <<>> THEN <<>> ELSE Head(seqs) \o Flatten(Tail(seqs))

RECURSIVE JoinWith(_, _)
\* sep.join(parts)
JoinWith(parts, sep) ==
    IF parts = <<>> THEN <<>>
    ELSE IF Len(parts) = 1 THEN Head(parts)
    ELSE Head(parts) \o sep \o JoinWith(Tail(parts), sep)

\* norm_ws(s)
norm_ws(s) == JoinWith(ws_split(s, <<>>), <<" ">>)

CommentStart == <<"/", "*", "*">>     \* "/**"
CommentEnd == <<"*", "/">>            \* "*/"

(***************************************************************************)
(* DEFINE_RE and find_docblock_above                                       *)
(***************************************************************************)
GlNames == {"glA", "glB", "glC", "glD"}                      \* gl[A-Za-z0-9_]+
GladNames == {"glad_glA", "glad_glB", "glad_glC", "glad_glD"} \* glad_gl[A-Za-z0-9_]+

\* DEFINE_RE.match(line): <<group(1)>>, or None
\* ^\s*#\s*define\s+(gl..)\s+(glad_gl..)\s*$
DEFINE_RE(line) ==
    LET p1 == SkipWs(line, 1)
        p2 == SkipWs(line, p1 + 1)
        p3 == SkipWs(line, p2 + 1)
        p4 == SkipWs(line, p3 + 1)
        p5 == SkipWs(line, p4 + 1)
    IN  IF /\ p4 <= Len(line)
           /\ line[p1] = "#"
           /\ line[p2] = "define"
           /\ p3 > p2 + 1 /\ line[p3] \in GlNames
           /\ p4 > p3 + 1 /\ line[p4] \in GladNames
           /\ p5 > Len(line)
        THEN <<line[p3]>>
        ELSE None

RECURSIVE skip_blank_up(_, _)
\* while j >= 0 and lines[j].strip() == "": j -= 1
skip_blank_up(lines, j) ==
    IF j >= 1 /\ IsBlank(lines[j]) THEN skip_blank_up(lines, j - 1) ELSE j

\* a line the upward scan steps over: blank, or ending, continuing or starting a comment
comment_body(line) ==
    \/ IsBlank(line)
    \/ Contains(line, CommentEnd)
    \/ StartsWith(LStrip(line), <<"*">>)
    \/ StartsWith(LStrip(line), <<"/", "*">>)

RECURSIVE scan_block_start(_, _)
\* the while k >= 0 loop: the index of the nearest line holding "/**", 0 if the
\* scan breaks or runs off the top
scan_block_start(lines, k) ==
    IF k < 1 THEN 0
    ELSE IF Contains(lines[k], CommentStart) THEN k
    ELSE IF comment_body(lines[k]) THEN scan_block_start(lines, k - 1)
    ELSE 0

\* the variant a careless rewrite gives: blank lines above the macro are not skipped
find_docblock_above_noblank(lines, idx_define) ==
    LET j == idx_define - 1
    IN  IF j < 1 THEN None
        ELSE IF ~Contains(lines[j], CommentEnd) THEN None
        ELSE LET k == scan_block_start(lines, j)
             IN  IF k = 0 THEN None ELSE <<k, j>>

\* the variant whose range also takes the line after the block
find_docblock_above_wide(lines, idx_define) ==
    LET j == skip_blank_up(lines, idx_define - 1)
    IN  IF j < 1 THEN None
        ELSE IF ~Contains(lines[j], CommentEnd) THEN None
        ELSE LET k == scan_block_start(lines, j)
             IN  IF k = 0 THEN None ELSE <<k, j + 1>>

\* find_docblock_above(lines, idx_define): <<first, last>> or None
find_docblock_above(lines, idx_define) ==
    LET j == skip_blank_up(lines, idx_define - 1)
    IN  IF j < 1 THEN None
        ELSE IF ~Contains(lines[j], CommentEnd)
             THEN IF StartsWith(LStrip(lines[j]), CommentStart)
                     /\ Contains(lines[j], CommentEnd)
                  THEN <<j, j>>
                  ELSE None
        ELSE LET k == scan_block_start(lines, j)
             IN  IF k = 0 THEN None ELSE <<k, j>>

\* the pre-scan pass of process: the set of line indices marked for removal
prescan(lines) ==
    UNION { LET rng == find_docblock_above(lines, x)
            IN  IF DEFINE_RE(lines[x]) # None /\ rng # None
                THEN rng[1]..rng[2] ELSE {}
            : x \in 1..Len(lines) }

(***************************************************************************)
(* GLRegistry                                                              *)
(***************************************************************************)
\* the loop condition of resolve_alias as a rewrite that tests the target gives it
resolve_alias_cond_target(cur, seen) ==
    /\ cur \in DOMAIN alias_of
    /\ cur \notin seen
    /\ alias_of[cur] \notin seen

\* the loop condition of resolve_alias without its seen-set guard
resolve_alias_cond_noguard(cur, seen) == cur \in DOMAIN alias_of

\* while cur in self.alias_of and cur not in seen
resolve_alias_cond(cur, seen) == cur \in DOMAIN alias_of /\ cur \notin seen

RECURSIVE resolve_alias_loop(_, _)
resolve_alias_loop(cur, seen) ==
    IF resolve_alias_cond(cur, seen)
    THEN resolve_alias_loop(alias_of[cur], seen \cup {cur})
    ELSE cur

\* GLRegistry.resolve_alias(name)
resolve_alias(name) == resolve_alias_loop(name, {})

\* GLRegistry.signature(name): <<[ret, params]>> or None
signature(name) ==
    IF name \in DOMAIN commands
    THEN <<[ret |-> commands[name].ret, params |-> commands[name].params]>>
    ELSE None

\* GLRegistry.signature_canonical(name): <<[ret, params, canon]>> or None
signature_canonical(name) ==
    LET canon == resolve_alias(name)
        sig == signature(canon)
    IN  IF sig = None THEN None
        ELSE <<[ret |-> sig[1].ret, params |-> sig[1].params, canon |-> canon]>>

\* extension names in lexical order: sorted(...) picks its members in this order
ExtOrder == <<"GL_ARB_a", "GL_EXT_b">>

RECURSIVE sorted_exts(_, _)
sorted_exts(set, p) ==
    IF p > Len(ExtOrder) THEN <<>>
    ELSE (IF ExtOrder[p] \in set THEN <<ExtOrder[p]>> ELSE <<>>) \o sorted_exts(set, p + 1)

\* dict.get(name, set())
exts_get(name) ==
    IF name \in DOMAIN extensions_for_cmd THEN extensions_for_cmd[name] ELSE {}

\* dict.get(name): <<version>> or None
version_get(name) ==
    IF name \in DOMAIN introduced_version THEN <<introduced_version[name]>> ELSE None

\* GLRegistry.version_or_exts(name)
version_or_exts(name) ==
    LET v0 == version_get(name)
        v == IF v0 = None THEN version_get(resolve_alias(name)) ELSE v0
    IN  [v |-> v, exts |-> sorted_exts(exts_get(name) \cup exts_get(resolve_alias(name)), 1)]

(***************************************************************************)
(* GLRegistry._parse_features                                              *)
(***************************************************************************)
\* int(text) of one dot-separated component; a text outside the table raises
IntOf == [c \in {"0", "1", "3", "10"} |->
            CASE c = "0" -> 0 [] c = "1" -> 1 [] c = "3" -> 3 [] c = "10" -> 10]

\* tuple(map(int, number.split("."))) succeeds
parses_ok(number) == \A p \in DOMAIN number : number[p] \in DOMAIN IntOf

RECURSIVE tuple_less(_, _)
\* a < b on tuples of integers
tuple_less(a, b) ==
    IF b = <<>> THEN FALSE
    ELSE IF a = <<>> THEN TRUE
    ELSE IF IntOf[Head(a)] # IntOf[Head(b)] THEN IntOf[Head(a)] < IntOf[Head(b)]
    ELSE tuple_less(Tail(a), Tail(b))

\* the update of lines 103-112 that never replaces a recorded version
record_version_first(iv, nm, number) ==
    IF nm \notin DOMAIN iv
    THEN [x \in DOMAIN iv \cup {nm} |-> IF x = nm THEN number ELSE iv[x]]
    ELSE iv

\* lines 103-112: introduced_version after one <command name=nm> of a block
record_version(iv, nm, number) ==
    IF nm \notin DOMAIN iv
    THEN [x \in DOMAIN iv \cup {nm} |-> IF x = nm THEN number ELSE iv[x]]
    ELSE IF parses_ok(number) /\ parses_ok(iv[nm]) /\ tuple_less(number, iv[nm])
         THEN [iv EXCEPT ![nm] = number]
         ELSE iv

RECURSIVE record_block(_, _, _)
\* the commands of one block, in document order
record_block(iv, cmds, number) ==
    IF cmds = <<>> THEN iv
    ELSE record_block(record_version(iv, Head(cmds), number), Tail(cmds), number)

(***************************************************************************)
(* RefPages.  A document is [form, brief, protos, pdesc]: form is "well"   *)
(* (parses), "recoverable" (parses after the lenient pass) or "broken";    *)
(* brief is the refpurpose text (<<text>>, None if the tag is missing);    *)
(* protos are the funcprototype entries [fname, ret, params]; pdesc is the *)
(* mapping the parameters section yields.                                  *)
(***************************************************************************)
\* RefPages._parse_lenient(path): <<root>> or None
parse_lenient(doc) ==
    IF doc.form = "broken" THEN None
    ELSE <<[brief |-> doc.brief, protos |-> doc.protos, pdesc |-> doc.pdesc]>>

\* RefPages.load(func), its result under cache c: <<root>> or None
load_root(func, c) ==
    IF func \in DOMAIN c THEN <<c[func]>>
    ELSE IF func \notin DOMAIN docs THEN None
    ELSE parse_lenient(docs[func])

\* one more call counted for k
Bump(f, k) ==
    [x \in DOMAIN f \cup {k} |->
        IF x # k THEN f[x] ELSE IF k \in DOMAIN f THEN f[k] + 1 ELSE 1]

\* RefPages.load(func), its effect on st = [cache, lookups, parses]
load_effect(func, st) ==
    IF func \in DOMAIN st.cache THEN st
    ELSE IF func \notin DOMAIN docs
         THEN [st EXCEPT !.lookups = Bump(st.lookups, func)]
         ELSE LET root == parse_lenient(docs[func])
              IN  [cache |-> IF root # None
                             THEN [x \in DOMAIN st.cache \cup {func} |->
                                      IF x = func THEN root[1] ELSE st.cache[x]]
                             ELSE st.cache,
                   lookups |-> Bump(st.lookups, func),
                   parses |-> Bump(st.parses, func)]

RECURSIVE load_all(_, _)
\* the loads of a sequence of function names, in order
load_all(funcs, st) ==
    IF funcs = <<>> THEN st ELSE load_all(Tail(funcs), load_effect(Head(funcs), st))

\* RefPages.brief(func): <<text>> or None
brief(func) ==
    LET root == load_root(func, cache)
    IN  IF root = None THEN None
        ELSE IF root[1].brief = None \/ root[1].brief[1] = <<>> THEN None
        ELSE <<norm_ws(root[1].brief[1])>>

RECURSIVE first_proto(_, _)
first_proto(protos, func) ==
    IF protos = <<>> THEN None
    ELSE IF Head(protos).fname = func
         THEN <<[ret |-> Head(protos).ret, params |-> Head(protos).params]>>
         ELSE first_proto(Tail(protos), func)

\* RefPages.c_signature(func): <<[ret, params]>> or None
c_signature(func) ==
    LET root == load_root(func, cache)
    IN  IF root = None THEN None ELSE first_proto(root[1].protos, func)

\* RefPages.param_descriptions(func): pname -> description
param_descriptions(func) ==
    LET root == load_root(func, cache)
    IN  IF root = None THEN <<>> ELSE root[1].pdesc

(***************************************************************************)
(* build_doc                                                               *)
(***************************************************************************)
FolderTag == "gl4"

\* make_refpage_url(folder_tag, func)
make_refpage_url(folder_tag, func) ==
    <<"https:", "/", "/", "registry.khronos.org", "/", "OpenGL-Refpages", "/",
      folder_tag, "/", "html", "/", func, ".xhtml">>

\* make_param_line_with_desc(pname, ptype, desc, trailer)
make_param_line_with_desc(pname, ptype, desc, trailer) ==
    IF desc # <<>>
    THEN <<" ", "*", " ", "\\param", " ", pname, " ", "(">> \o ptype \o <<")", " ", "-", " ">>
         \o desc \o trailer
    ELSE <<" ", "*", " ", "\\param", " ", pname, " ", "(">> \o ptype \o <<")">> \o trailer

\* make_param_trailer_from_reg(reg_p), reg_p is <<param>> or None
make_param_trailer_from_reg(reg_p) ==
    IF reg_p = None THEN <<>>
    ELSE LET extras ==
                 (IF reg_p[1].group # "" THEN << <<"group:", " ", reg_p[1].group>> >> ELSE <<>>)
              \o (IF reg_p[1].len # "" THEN << <<"len:", " ", reg_p[1].len>> >> ELSE <<>>)
         IN  IF extras # <<>>
             THEN <<" ", " ", "[">> \o JoinWith(extras, <<" ", "|", " ">>) \o <<"]">>
             ELSE <<>>

RECURSIVE RStripLen(_, _)
RStripLen(s, n) == IF n >= 1 /\ s[n] = " " THEN RStripLen(s, n - 1) ELSE n

\* s.strip()
Strip(s) == LStrip(SubSeq(s, 1, RStripLen(s, Len(s))))

\* the guard of line 343 without its test for an empty type
emits_return_nonvoid(ret) == Strip(ret) # <<"void">>

\* line 343: if ret and ret.strip() != "void"
emits_return(ret) == ret # <<>> /\ Strip(ret) # <<"void">>

\* reg_params_by_name.get(pname): the last registry parameter of that name
reg_param_get(params, pname) ==
    LET hits == {p \in DOMAIN params : params[p].name = pname}
    IN  IF hits = {} THEN None
        ELSE <<params[CHOOSE p \in hits : \A q \in hits : q <= p]>>

\* the loads build_doc makes, in order (lines 307-315)
build_doc_loads(gl_name) ==
    LET canon == resolve_alias(gl_name)
        pd0 == param_descriptions(gl_name)
    IN  <<gl_name>>
        \o (IF brief(gl_name) = None /\ canon # gl_name THEN <<canon>> ELSE <<>>)
        \o <<gl_name>>
        \o (IF c_signature(gl_name) = None /\ canon # gl_name THEN <<canon>> ELSE <<>>)
        \o <<gl_name>>
        \o (IF DOMAIN pd0 = {} /\ canon # gl_name THEN <<canon>> ELSE <<>>)

\* lines 306-328: what build_doc gathers; <<[brief, ret, params_list, pdesc, reg_params]>>
\* or None when neither source has a signature
build_doc_sig(gl_name) ==
    LET canon == resolve_alias(gl_name)
        brief0 == brief(gl_name)
        brief1 == IF brief0 = None /\ canon # gl_name THEN brief(canon) ELSE brief0
        sig0 == c_signature(gl_name)
        sig == IF sig0 = None /\ canon # gl_name THEN c_signature(canon) ELSE sig0
        pd0 == param_descriptions(gl_name)
        pdesc == IF DOMAIN pd0 = {} /\ canon # gl_name THEN param_descriptions(canon) ELSE pd0
        reg_sig == signature_canonical(gl_name)
        reg_params == IF reg_sig # None THEN reg_sig[1].params ELSE <<>>
    IN  IF sig = None /\ reg_sig = None THEN None
        ELSE IF sig = None
             THEN <<[brief |-> brief1, ret |-> reg_sig[1].ret,
                     params_list |-> [p \in DOMAIN reg_sig[1].params |->
                                        <<reg_sig[1].params[p].type, reg_sig[1].params[p].name>>],
                     pdesc |-> pdesc, reg_params |-> reg_params]>>
             ELSE <<[brief |-> brief1, ret |-> sig[1].ret, params_list |-> sig[1].params,
                     pdesc |-> pdesc, reg_params |-> reg_params]>>

RECURSIVE param_lines(_, _, _, _)
\* lines 336-342: one line per distinct parameter name, first occurrence wins
param_lines(params_list, seen_p, pdesc, reg_params) ==
    IF params_list = <<>> THEN <<>>
    ELSE LET ptype == Head(params_list)[1]
             pname == Head(params_list)[2]
         IN  IF pname \in seen_p
             THEN param_lines(Tail(params_list), seen_p, pdesc, reg_params)
             ELSE << make_param_line_with_desc(pname, ptype,
                        IF pname \in DOMAIN pdesc THEN pdesc[pname] ELSE <<>>,
                        make_param_trailer_from_reg(reg_param_get(reg_params, pname))) >>
                  \o param_lines(Tail(params_list), seen_p \cup {pname}, pdesc, reg_params)

\* lines 346-353: the \note line, if any
note_lines(gl_name) ==
    LET ve == version_or_exts(gl_name)
        note_parts ==
               (IF ve.v # None /\ ve.v[1] # <<>>
                THEN << <<"Introduced in OpenGL", " ">> \o JoinWith([p \in DOMAIN ve.v[1] |-> <<ve.v[1][p]>>], <<".">>) >>
                ELSE <<>>)
            \o (IF ve.exts # <<>>
                THEN << <<"Introduced by extension(s):", " ">>
                        \o JoinWith([p \in DOMAIN ve.exts |-> <<ve.exts[p]>>], <<",", " ">>) >>
                ELSE <<>>)
    IN  IF note_parts # <<>>
        THEN << <<" ", "*", " ", "\\note", " ">> \o JoinWith(note_parts, <<" ", "|", " ">>) >>
        ELSE <<>>

\* build_doc(gl_name, reg, refs): the lines of the block, or None
build_doc(gl_name) ==
    LET g == build_doc_sig(gl_name)
    IN  IF g = None THEN None
        ELSE   << <<"/", "*", "*">> >>
            \o (IF g[1].brief # None /\ g[1].brief[1] # <<>>
                THEN IF g[1].brief[1][Len(g[1].brief[1])] # "."
                     THEN << <<" ", "*", " ", "\\brief", " ">> \o g[1].brief[1] \o <<".">> >>
                     ELSE << <<" ", "*", " ", "\\brief", " ">> \o g[1].brief[1] >>
                ELSE <<>>)
            \o param_lines(g[1].params_list, {}, g[1].pdesc, g[1].reg_params)
            \o (IF emits_return(g[1].ret)
                THEN << <<" ", "*", " ", "\\return", " ", "(">> \o g[1].ret \o <<")">> >>
                ELSE <<>>)
            \o << <<" ", "*", " ", "\\see", " ">> \o make_refpage_url(FolderTag, gl_name) >>
            \o note_lines(gl_name)
            \o << <<" ", "*", "/">> >>

\* the reference store after build_doc(gl_name)
refs_after_build_doc(gl_name) ==
    load_all(build_doc_loads(gl_name),
             [cache |-> cache, lookups |-> lookups, parses |-> parses])

(***************************************************************************)
(* Idle values: what the variables of the other components hold while one  *)
(* component is exercised.                                                 *)
(***************************************************************************)
EmptyMap == <<>>

IdleFeat == features = <<>> /\ fi = 1
IdleRa == ra_name = "" /\ ra_cur = "" /\ ra_seen = {} /\ ra_pc = "idle"
IdleRefs == docs = EmptyMap /\ cache = EmptyMap /\ lookups = EmptyMap /\ parses = EmptyMap
IdleBd == calls = 0 /\ bd_name = "" /\ bd_out = None
IdleProc ==
    /\ src_lines = <<>> /\ skip = {} /\ i = 1 /\ out_lines = <<>> /\ pc = "idle"
    /\ out_file = <<>> /\ run = 1 /\ out1 = <<>>

\* all sequences over S of length at most n
SeqsUpTo(S, n) == UNION {[1..k -> S] : k \in 0..n}

\* all maps from a subset of D into R
PartialMaps(D, R) == UNION {[S -> R] : S \in SUBSET D}

(***************************************************************************)
(* process: one run on an input file, then a second run on its output      *)
(***************************************************************************)
LineKinds ==
    { <<>>,
      <<" ">>,
      <<"/", "*", "*">>,
      <<" ", "*", "/">>,
      <<" ", "*", " ", "x">>,
      <<"/", "*", "*", " ", "x", " ", "*", "/">>,
      <<"x">>,
      <<"#", "define", " ", "glA", " ", "glad_glA">>,
      <<" ", "#", " ", "define", " ", "glB", " ", " ", "glad_glB", " ">>,
      <<"#", "define", " ", "glA", " ", "glad_glA", " ", "x">> }

\* the registry of the run: glA is a command introduced in 1.0, glB is unknown;
\* no reference page exists
ProcParam == [type |-> <<"GLint">>, name |-> "x", group |-> "", len |-> ""]
ProcCommands == [n \in {"glA"} |-> [ret |-> <<"GLint">>, params |-> <<ProcParam>>, alias |-> ""]]
ProcVersions == [n \in {"glA"} |-> <<"1", "0">>]

InitProcess ==
    /\ commands = ProcCommands /\ alias_of = EmptyMap
    /\ introduced_version = ProcVersions /\ extensions_for_cmd = EmptyMap
    /\ IdleFeat /\ IdleRa /\ IdleRefs /\ IdleBd
    /\ src_lines \in SeqsUpTo(LineKinds, MaxLines)
    /\ skip = {} /\ i = 1 /\ out_lines = <<>> /\ pc = "prescan"
    /\ out_file = <<>> /\ run = 1 /\ out1 = <<>>

\* lines 360-367
PreScan ==
    /\ pc = "prescan"
    /\ skip' = prescan(src_lines)
    /\ i' = 1 /\ out_lines' = <<>>
    /\ pc' = "main"
    /\ UNCHANGED <<src_lines, out_file, run, out1, regVars, featVars, raVars, refVars, bdVars>>

\* lines 372-374
MainSkip ==
    /\ pc = "main" /\ i <= Len(src_lines)
    /\ i \in skip
    /\ i' = i + 1
    /\ UNCHANGED <<src_lines, skip, out_lines, pc, out_file, run, out1,
                   regVars, featVars, raVars, refVars, bdVars>>

\* lines 381-382 with the block put after its macro line
main_define_after(out, line, doc) ==
    IF doc # <<>> THEN out \o << <<line>>, doc >> ELSE Append(out, <<line>>)

\* lines 380-382: out_lines after a macro line; doc as build_doc returned it
main_define(out, line, doc) ==
    IF doc # <<>> THEN out \o << doc, <<line>> >> ELSE Append(out, <<line>>)

\* lines 375-384
MainDefine ==
    /\ pc = "main" /\ i <= Len(src_lines)
    /\ i \notin skip
    /\ DEFINE_RE(src_lines[i]) # None
    /\ LET gl_name == DEFINE_RE(src_lines[i])[1]
           st == refs_after_build_doc(gl_name)
       IN  /\ out_lines' = main_define(out_lines, src_lines[i], build_doc(gl_name))
           /\ cache' = st.cache /\ lookups' = st.lookups /\ parses' = st.parses
    /\ i' = i + 1
    /\ UNCHANGED <<src_lines, skip, pc, out_file, run, out1, docs,
                   regVars, featVars, raVars, bdVars>>

\* lines 375-376, 385-386
MainOther ==
    /\ pc = "main" /\ i <= Len(src_lines)
    /\ i \notin skip
    /\ DEFINE_RE(src_lines[i]) = None
    /\ out_lines' = Append(out_lines, <<src_lines[i]>>)
    /\ i' = i + 1
    /\ UNCHANGED <<src_lines, skip, pc, out_file, run, out1,
                   regVars, featVars, raVars, refVars, bdVars>>

\* f.write("\n".join(out_lines) + "\n"), as read().splitlines() reads it back
written_text(out) == IF out = <<>> THEN << <<>> >> ELSE Flatten(out)

\* lines 387-388
WriteOut ==
    /\ pc = "main" /\ i > Len(src_lines)
    /\ out_file' = written_text(out_lines)
    /\ pc' = "written"
    /\ UNCHANGED <<src_lines, skip, i, out_lines, run, out1,
                   regVars, featVars, raVars, refVars, bdVars>>

\* the tool run again on its own output, registry and reference pages unchanged:
\* main() builds a fresh RefPages, lines 358-359 read the text
Rerun ==
    /\ pc = "written" /\ run = 1
    /\ run' = 2 /\ out1' = out_file
    /\ src_lines' = out_file
    /\ skip' = {} /\ i' = 1 /\ out_lines' = <<>> /\ pc' = "prescan"
    /\ cache' = EmptyMap /\ lookups' = EmptyMap /\ parses' = EmptyMap
    /\ UNCHANGED <<out_file, docs, regVars, featVars, raVars, bdVars>>

NextProcess == PreScan \/ MainSkip \/ MainDefine \/ MainOther \/ WriteOut \/ Rerun

SpecProcess == InitProcess /\ [][NextProcess]_vars

(***************************************************************************)
(* Claims about process and find_docblock_above (under SpecProcess)        *)
(***************************************************************************)
IsDefine(line) == DEFINE_RE(line) # None

DefineIdx(lines) == {x \in DOMAIN lines : IsDefine(lines[x])}

\* the macro lines of a text, in order
Defines(lines) == SelectSeq(lines, IsDefine)

\* C1: the run on the first run's output writes the text the first run wrote.
C1_Idempotent == (run = 2 /\ pc = "written") => out_file = out1

\* the nearest non-blank line above line x (0 if there is none)
NearestAbove(lines, x) ==
    LET nb == {t \in 1..(x - 1) : ~IsBlank(lines[t])}
    IN  IF nb = {} THEN 0 ELSE CHOOSE t \in nb : \A u \in nb : u <= t

\* lines a..b are a comment block: a holds the start marker, b the end marker, and
\* every line after a is blank or ends, continues or starts a comment
IsBlock(lines, a, b) ==
    /\ 1 <= a /\ a <= b
    /\ Contains(lines[a], CommentStart)
    /\ Contains(lines[b], CommentEnd)
    /\ \A t \in (a + 1)..b : comment_body(lines[t])

\* a line that neither holds the end marker nor starts or continues a comment
NonComment(line) ==
    /\ ~IsBlank(line)
    /\ ~Contains(line, CommentEnd)
    /\ ~StartsWith(LStrip(line), <<"*">>)
    /\ ~StartsWith(LStrip(line), <<"/", "*">>)

\* C3: for every macro line, a comment block that only blank lines separate from it
\* is found by find_docblock_above (from its nearest start marker to its closing
\* line) and, once the pre-scan has run, is marked for removal; and nothing is found
\* when the nearest non-blank line above the macro line is a non-comment line.
C3_Adjacency ==
    \A x \in DefineIdx(src_lines) :
        LET j == NearestAbove(src_lines, x)
            rng == find_docblock_above(src_lines, x)
        IN  /\ (j >= 1 /\ \E a \in 1..j : IsBlock(src_lines, a, j))
                 => /\ rng # None
                    /\ rng[2] = j
                    /\ IsBlock(src_lines, rng[1], j)
                    /\ \A a \in 1..j : IsBlock(src_lines, a, j) => a <= rng[1]
                    /\ pc \in {"main", "written"} => rng[1]..rng[2] \subseteq skip
            /\ (j >= 1 /\ NonComment(src_lines[j])) => rng = None

\* a block, a blank line and a macro line: the block is marked
C3_Witness ==
    /\ pc = "main"
    /\ \E x \in DefineIdx(src_lines) :
          /\ x >= 3 /\ IsBlank(src_lines[x - 1])
          /\ IsBlock(src_lines, x - 2, x - 2)
          /\ (x - 2) \in skip

\* the entries of out_lines that are single lines
OutLineEntries == SelectSeq(out_lines, LAMBDA e : Len(e) = 1)

\* the lines of the input that are not marked, in order, each as an entry
KeptEntries ==
    LET F[k \in 0..Len(src_lines)] ==
            IF k = 0 THEN <<>>
            ELSE IF k \in skip THEN F[k - 1] ELSE Append(F[k - 1], <<src_lines[k]>>)
    IN  F[Len(src_lines)]

\* C9: when the main pass is over, the output without the synthesized blocks is the
\* input without the marked lines, same order, same content; and every block of the
\* output is what build_doc returned for the macro line right after it.
C9_PassThrough ==
    pc = "written" =>
        /\ OutLineEntries = KeptEntries
        /\ \A p \in DOMAIN out_lines :
              Len(out_lines[p]) # 1 =>
                 /\ p < Len(out_lines)
                 /\ Len(out_lines[p + 1]) = 1
                 /\ IsDefine(out_lines[p + 1][1])
                 /\ build_doc(DEFINE_RE(out_lines[p + 1][1])[1]) # None
                 /\ out_lines[p] = build_doc(DEFINE_RE(out_lines[p + 1][1])[1])

\* a run that dropped a marked line, passed a plain line through and added a block
C9_Witness ==
    /\ pc = "written"
    /\ skip # {}
    /\ \E p \in DOMAIN out_lines : Len(out_lines[p]) # 1
    /\ \E p \in DOMAIN out_lines : Len(out_lines[p]) = 1 /\ ~IsDefine(out_lines[p][1])

\* C10: no macro line lies in a range find_docblock_above returns, and when the run
\* is over the macro lines of the output are those of the input, in the same order.
C10_NoMacroDropped ==
    /\ \A x \in DefineIdx(src_lines) :
          LET rng == find_docblock_above(src_lines, x)
          IN  rng # None => \A t \in rng[1]..rng[2] : t \in DOMAIN src_lines /\ ~IsDefine(src_lines[t])
    /\ pc = "written" => Defines(Flatten(out_lines)) = Defines(src_lines)

\* a finished run over two macro lines, one of them with a block above it
C10_Witness ==
    /\ pc = "written"
    /\ Cardinality(DefineIdx(src_lines)) >= 2
    /\ skip # {}

(***************************************************************************)
(* resolve_alias, one loop iteration per step, on any alias map            *)
(***************************************************************************)
NameTable == <<"glA", "glB", "glC", "glD">>
AliasNames == {NameTable[k] : k \in 1..NumNames}

\* _parse_commands, lines 86-89: a command with an alias has an entry in both tables
InitAlias ==
    /\ alias_of \in PartialMaps(AliasNames, AliasNames)
    /\ commands = [n \in DOMAIN alias_of |->
                     [ret |-> <<"void">>, params |-> <<>>, alias |-> alias_of[n]]]
    /\ introduced_version = EmptyMap /\ extensions_for_cmd = EmptyMap
    /\ IdleFeat /\ IdleRefs /\ IdleBd /\ IdleProc
    /\ ra_name \in AliasNames
    /\ ra_cur = ra_name /\ ra_seen = {} /\ ra_pc = "loop"

\* lines 129-131: one iteration of the while loop
ResolveStep ==
    /\ ra_pc = "loop"
    /\ resolve_alias_cond(ra_cur, ra_seen)
    /\ ra_seen' = ra_seen \cup {ra_cur}
    /\ ra_cur' = alias_of[ra_cur]
    /\ UNCHANGED <<ra_name, ra_pc, regVars, featVars, refVars, bdVars, procVars>>

\* line 132: return cur
ResolveReturn ==
    /\ ra_pc = "loop"
    /\ ~resolve_alias_cond(ra_cur, ra_seen)
    /\ ra_pc' = "done"
    /\ UNCHANGED <<ra_name, ra_cur, ra_seen, regVars, featVars, refVars, bdVars, procVars>>

NextAlias == ResolveStep \/ ResolveReturn

\* the interpreter runs the loop on: a step that can be taken is taken
SpecAlias == InitAlias /\ [][NextAlias]_vars /\ WF_vars(NextAlias)

(***************************************************************************)
(* Claims about resolve_alias (under SpecAlias)                            *)
(***************************************************************************)
RECURSIVE ReachableFrom(_, _)
\* the names reached from the names of set S by following alias pointers
ReachableFrom(S, n) ==
    IF n = 0 THEN S
    ELSE ReachableFrom(S \cup {alias_of[x] : x \in S \cap DOMAIN alias_of}, n - 1)

Reachable(from, to) == to \in ReachableFrom({from}, Cardinality(DOMAIN alias_of))

\* C2: resolve_alias returns, and what it returns is reachable from its input by
\* following zero or more alias pointers.
C2_Terminates == <>(ra_pc = "done" /\ Reachable(ra_name, ra_cur))

\* resolve_alias has returned on a map where the input leads into a cycle
C2_Witness ==
    /\ ra_pc = "done"
    /\ ra_cur \in DOMAIN alias_of
    /\ ra_cur # ra_name
    /\ Cardinality(ra_seen) = NumNames

RECURSIVE WalkFrom(_, _)
\* the distinct names visited from n by following alias pointers, in order
WalkFrom(n, acc) ==
    IF n \in Range(acc) THEN acc
    ELSE IF n \notin DOMAIN alias_of THEN Append(acc, n)
    ELSE WalkFrom(alias_of[n], Append(acc, n))

Walk(n) == WalkFrom(n, <<>>)

LastOf(s) == s[Len(s)]

\* following the pointers from n would revisit a name
Revisits(n) == LastOf(Walk(n)) \in DOMAIN alias_of

\* C8 as stated: on a cycle resolve_alias returns the last name visited before the
\* repeat, the name whose alias pointer leads back to a name already seen.
C8_ReturnsLastVisited ==
    (ra_pc = "done" /\ Revisits(ra_name)) => ra_cur = LastOf(Walk(ra_name))

\* C8 as amended: on a cycle resolve_alias returns the name that would be visited a
\* second time, the target of the alias pointer of the last name visited.
C8_ReturnsRepeatedName ==
    (ra_pc = "done" /\ Revisits(ra_name)) =>
        /\ ra_cur = alias_of[LastOf(Walk(ra_name))]
        /\ ra_cur \in Range(Walk(ra_name))
        /\ ra_seen = Range(Walk(ra_name))

\* resolve_alias has returned on a cycle of two names or more
C8_Witness ==
    /\ ra_pc = "done"
    /\ Revisits(ra_name)
    /\ ra_cur # LastOf(Walk(ra_name))

(***************************************************************************)
(* _parse_features, one <feature> block per step                           *)
(***************************************************************************)
\* number attributes, split at the dots; <<>> is a missing or empty attribute and
\* <<"x", "1">> one that is no dotted integer
Numbers == { <<>>, <<"1", "0">>, <<"3", "3">>, <<"10">>, <<"x", "1">> }

FeatureKinds ==
    { [api |-> "gl", number |-> nb, cmds |-> c] :
          nb \in Numbers, c \in { <<"glA">>, <<"glB", "glA">> } }
    \cup { [api |-> "gles2", number |-> <<"0">>, cmds |-> <<"glA">>] }

InitFeatures ==
    /\ commands = EmptyMap /\ alias_of = EmptyMap
    /\ introduced_version = EmptyMap /\ extensions_for_cmd = EmptyMap
    /\ features \in SeqsUpTo(FeatureKinds, MaxFeatures)
    /\ fi = 1
    /\ IdleRa /\ IdleRefs /\ IdleBd /\ IdleProc

\* lines 93-97: a block of another api, or without a number, is passed over
FeatureSkip ==
    /\ fi <= Len(features)
    /\ features[fi].api # "gl" \/ features[fi].number = <<>>
    /\ fi' = fi + 1
    /\ UNCHANGED <<features, regVars, raVars, refVars, bdVars, procVars>>

\* lines 98-112: the commands a gl block requires
FeatureRead ==
    /\ fi <= Len(features)
    /\ features[fi].api = "gl" /\ features[fi].number # <<>>
    /\ introduced_version' =
           record_block(introduced_version, features[fi].cmds, features[fi].number)
    /\ fi' = fi + 1
    /\ UNCHANGED <<features, commands, alias_of, extensions_for_cmd,
                   raVars, refVars, bdVars, procVars>>

NextFeatures == FeatureSkip \/ FeatureRead

SpecFeatures == InitFeatures /\ [][NextFeatures]_vars

(***************************************************************************)
(* Claims about _parse_features (under SpecFeatures)                       *)
(***************************************************************************)
\* the gl blocks with a number that require nm
BlocksOf(nm) ==
    {k \in DOMAIN features :
        /\ features[k].api = "gl" /\ features[k].number # <<>>
        /\ nm \in Range(features[k].cmds)}

\* C6: once the features are read, a command required by gl blocks whose numbers all
\* are dotted integers has the number of one of them recorded, no block that requires
\* it has a lower number, and version_or_exts reports the recorded number.
C6_EarliestVersion ==
    fi > Len(features) =>
        \A nm \in {"glA", "glB"} :
            (BlocksOf(nm) # {} /\ \A k \in BlocksOf(nm) : parses_ok(features[k].number))
                => /\ nm \in DOMAIN introduced_version
                   /\ \E k \in BlocksOf(nm) : features[k].number = introduced_version[nm]
                   /\ \A k \in BlocksOf(nm) :
                         ~tuple_less(features[k].number, introduced_version[nm])
                   /\ version_or_exts(nm).v = <<introduced_version[nm]>>

\* the features are read, and a block read later carried the lower number
C6_Witness ==
    /\ fi > Len(features)
    /\ \E k1, k2 \in BlocksOf("glA") :
          /\ k1 < k2
          /\ features[k1].number = <<"10">>
          /\ features[k2].number = <<"3", "3">>
          /\ introduced_version["glA"] = <<"3", "3">>

(***************************************************************************)
(* build_doc on a registry and a reference page folder, one call per step  *)
(***************************************************************************)
DocNames == {"glA", "glB"}

\* return types as _parse_commands and c_signature leave them (norm_ws applied)
RegRets == { <<"void">>, <<>>, <<"GLint">>, <<"void", " ", "*">> }

RegParams ==
    << [type |-> <<"GLenum">>, name |-> "x", group |-> "G", len |-> ""],
       [type |-> <<"const", " ", "void", " ", "*">>, name |-> "p", group |-> "", len |-> "x"] >>

\* a <command>: missing, or with a prototype and perhaps an alias attribute
RegEntries(aliases) ==
    { [ret |-> r, params |-> RegParams, alias |-> a] : r \in RegRets, a \in aliases }

\* <func>.xml: unparsable; parsable after the lenient pass, its only prototype that
\* of another function; well-formed with a prototype of func
DocKinds(func) ==
    { [form |-> "broken", brief |-> None, protos |-> <<>>, pdesc |-> EmptyMap],
      [form |-> "recoverable", brief |-> << <<" ", "set", " ", " ", "x">> >>,
       protos |-> << [fname |-> "glZ", ret |-> <<"GLint">>, params |-> <<>>] >>,
       pdesc |-> EmptyMap],
      [form |-> "well", brief |-> << <<"set", " ", "x", ".">> >>,
       protos |-> << [fname |-> func, ret |-> <<"void">>,
                      params |-> << <<<<"GLenum">>, "x">>, <<<<"GLint">>, "x">> >>] >>,
       pdesc |-> [n \in {"x"} |-> <<"the", " ", "x">>]],
      [form |-> "well", brief |-> << <<" ">> >>,
       protos |-> << [fname |-> func, ret |-> <<"GLuint">>, params |-> <<>>] >>,
       pdesc |-> EmptyMap] }

\* the alias attribute of command n: none, or the name of another command, which
\* may have no entry of its own
AliasChoices(n) == IF n = "glA" THEN {"", "glB", "glC"} ELSE {"", "glA"}
RegChoices(n) == RegEntries(AliasChoices(n))

\* the registries: each name of a subset of DocNames has one of its entries
RegMaps ==
    UNION { {f \in [S -> UNION {RegChoices(n) : n \in S}] : \A n \in S : f[n] \in RegChoices(n)}
            : S \in SUBSET DocNames }

\* the folders: each name of a subset of DocNames has one of its documents
DocMaps ==
    UNION { {f \in [S -> UNION {DocKinds(n) : n \in S}] : \A n \in S : f[n] \in DocKinds(n)}
            : S \in SUBSET DocNames }

InitDoc ==
    /\ commands \in RegMaps
    /\ alias_of = [n \in {x \in DOMAIN commands : commands[x].alias # ""} |-> commands[n].alias]
    /\ introduced_version = [n \in {"glA"} |-> <<"1", "0">>]
    /\ extensions_for_cmd = [n \in {"glB"} |-> {"GL_EXT_b", "GL_ARB_a"}]
    /\ docs \in DocMaps
    /\ cache = EmptyMap /\ lookups = EmptyMap /\ parses = EmptyMap
    /\ calls = 0 /\ bd_name = "" /\ bd_out = None
    /\ IdleFeat /\ IdleRa /\ IdleProc

\* doc = build_doc(gl_name, reg, refs), as process calls it for a macro line
BuildDoc(gl_name) ==
    /\ calls < MaxCalls
    /\ calls' = calls + 1
    /\ bd_name' = gl_name
    /\ bd_out' = build_doc(gl_name)
    /\ LET st == refs_after_build_doc(gl_name)
       IN  cache' = st.cache /\ lookups' = st.lookups /\ parses' = st.parses
    /\ UNCHANGED <<docs, regVars, featVars, raVars, procVars>>

NextDoc == \E gl_name \in DocNames : BuildDoc(gl_name)

SpecDoc == InitDoc /\ [][NextDoc]_vars

(***************************************************************************)
(* Claims about build_doc and RefPages (under SpecDoc)                     *)
(***************************************************************************)
\* the block holds a \return line
HasReturnLine(doc) ==
    \E p \in DOMAIN doc : StartsWith(doc[p], <<" ", "*", " ", "\\return">>)

\* the return type build_doc selected for the last call
SelectedRet == build_doc_sig(bd_name)[1].ret

\* C4 as stated: an emitted block holds a \return line exactly when the selected
\* return type is not "void", an empty return type included.
C4_ReturnUnlessVoid ==
    (calls > 0 /\ bd_out # None) =>
        (HasReturnLine(bd_out) <=> SelectedRet # <<"void">>)

\* C4 as amended: an emitted block holds a \return line exactly when the selected
\* return type is neither "void" nor empty.
C4_ReturnUnlessVoidOrEmpty ==
    (calls > 0 /\ bd_out # None) =>
        (HasReturnLine(bd_out) <=> (SelectedRet # <<"void">> /\ SelectedRet # <<>>))

\* blocks were emitted for a pointer-to-void return type, with a \return line
C4_Witness ==
    /\ calls > 0 /\ bd_out # None
    /\ SelectedRet = <<"void", " ", "*">>
    /\ HasReturnLine(bd_out)

\* the reference pages hold a prototype of func
HasRefProto(func) ==
    /\ func \in DOMAIN docs
    /\ docs[func].form # "broken"
    /\ \E p \in DOMAIN docs[func].protos : docs[func].protos[p].fname = func

\* C5: build_doc emits a block whenever the reference pages hold a prototype for the
\* literal or the canonical name, or the registry holds a command entry for the name.
C5_EmitsWhenAnySignature ==
    calls > 0 =>
        ((\/ HasRefProto(bd_name)
          \/ HasRefProto(resolve_alias(bd_name))
          \/ bd_name \in DOMAIN commands) => bd_out # None)

\* C7: the reference document of a function name is looked up and parsed at most
\* once in a run.
C7_OneLoadPerName ==
    /\ \A f \in DOMAIN lookups : lookups[f] <= 1
    /\ \A f \in DOMAIN parses : parses[f] <= 1

====
